---- MODULE Spec2Model ----
(***************************************************************************)
(* A model of src/UNet.py: the construction of ConvBlock and UNet (their   *)
(* parameter validation and the layer tree they assemble) and the forward  *)
(* pass, followed on tensor shapes (channels, height, width).              *)
(*                                                                         *)
(* Python values that the code inspects with isinstance / len / == are     *)
(* tagged records: an int n is [kind |-> "int", val2 |-> 2*n], a float is  *)
(* [kind |-> "float", val2 |-> twice its value], a list is                 *)
(* [kind |-> "list", items |-> <<...>>] and an absent keyword argument is  *)
(* [kind |-> "none"].  Python sequences are 0-based, TLA+ sequences are    *)
(* 1-based: Python s[k] is s[k+1] here and Python s[-k] is s[Len(s)-k+1].  *)
(***************************************************************************)
EXTENDS Integers, Sequences, FiniteSets, TLC

\* ------------------------------------------------------------------ bounds

\* Largest depth of the encoder/decoder that is explored.
MaxDepth == 2
\* Largest height and width of an input tensor that is explored.
MaxSize == 8

\* --------------------------------------------------------- Python values

PyInt(n) == [kind |-> "int", val2 |-> 2 * n]
PyFloat2(k) == [kind |-> "float", val2 |-> k]
PyList(s) == [kind |-> "list", items |-> s]
PyNone == [kind |-> "none"]

\* isinstance(v, int)
IsInstanceInt(v) == v.kind = "int"
\* v < 1 for a number v
LessThanOne(v) == v.val2 < 2
\* v == 1, as Python evaluates it: a list never equals 1, 1.0 does
EqualsOne(v) == v.kind \in {"int", "float"} /\ v.val2 = 2
\* the integer an int value holds
IntOf(v) == v.val2 \div 2
\* whether len(v) is defined (it raises TypeError on a number)
HasLen(v) == v.kind = "list"

Ones(n) == [j \in 1..n |-> 1]
Reverse(s) == [k \in 1..Len(s) |-> s[Len(s) - k + 1]]
Last(s) == s[Len(s)]

\* ------------------------------------------------------- module constants

CONV_TYPE == [single |-> 1, double |-> 2, triple |-> 3]
ConvTypes == {"single", "double", "triple"}
Activations == {"relu", "prelu", "leaky_relu"}
UpsampleTypes == {"upsample", "convtranspose"}
DownsampleTypes == {"maxpool", "conv_stride"}
NumConvs(conv_type) == CONV_TYPE[conv_type]

\* the first entry of the default channel sequence
DefaultFirstChannels == 64
\* the default channel sequence doubles for this many levels after the first
DoublingLevels == 3

\* -------------------------------------------------------------- ConvBlock

\* nn.Conv2d(in, out, kernel_size, stride, padding, dilation)
Conv2d(in_channels, out_channels, kernel_size, stride, padding, dilation) ==
    [in_channels |-> in_channels, out_channels |-> out_channels,
     kernel_size |-> kernel_size, stride |-> stride,
     padding |-> padding, dilation |-> dilation]

\* The activation ConvBlock.__init__ ends up with: the 'leaky_relu' branch
\* assigns LeakyReLU, then the separate if/else on 'prelu' assigns again.
BlockActivation(activation) ==
    LET first == IF activation = "leaky_relu" THEN "LeakyReLU" ELSE "unset"
        second == IF activation = "prelu" THEN "PReLU" ELSE "ReLU"
    IN  second

\* stride is an int (the default 1) or a list: an int is repeated num_convs times
StrideList(stride, num_convs) ==
    IF IsInstanceInt(stride) THEN [j \in 1..num_convs |-> IntOf(stride)]
    ELSE stride.items

\* ConvBlock.__init__; dilation is a sequence of integers, stride a Python value
ConvBlock(in_channels, out_channels, conv_type, dilation, stride, activation, residual, batchnorm) ==
    LET num_convs == NumConvs(conv_type)
        strides == StrideList(stride, num_convs)
    IN  [num_convs |-> num_convs,
         conv_layers |->
             [i \in 1..num_convs |->
                 Conv2d(IF i = 1 THEN in_channels ELSE out_channels, out_channels,
                        3, strides[i], dilation[i], dilation[i])],
         batchnorm |-> batchnorm,
         batchnorm_layers |-> IF batchnorm THEN [i \in 1..num_convs |-> out_channels]
                              ELSE <<>>,
         activation |-> BlockActivation(activation),
         residual |-> residual]

\* ---------------------------------------------------- UNet.__init__: checks

Raise(type, at) == [type |-> type, at |-> at]
NoError == [type |-> "none", at |-> "none"]

\* a dilation the loop rejects as any of the two
BadDilationBoth(d) == LessThanOne(d) /\ ~IsInstanceInt(d)

\* if d < 1 or not isinstance(d, int)
BadDilation(d) == LessThanOne(d) \/ ~IsInstanceInt(d)

\* The checks of one per-level dilation list, in the order of the loop.
RECURSIVE DilationValuesCheck(_, _)
DilationValuesCheck(values, k) ==
    IF k > Len(values) THEN NoError
    ELSE IF BadDilation(values[k])
         THEN Raise("ValueError", "dilation value")
         ELSE DilationValuesCheck(values, k + 1)

\* for dilation_layer in dilation: ...
RECURSIVE DilationLayersCheck(_, _, _)
DilationLayersCheck(layers, k, num_convs) ==
    IF k > Len(layers) THEN NoError
    ELSE IF ~HasLen(layers[k]) THEN Raise("TypeError", "len(dilation_layer)")
    ELSE IF Len(layers[k].items) # num_convs
         THEN Raise("ValueError", "dilation layer length")
    ELSE IF DilationValuesCheck(layers[k].items, 1) # NoError
         THEN DilationValuesCheck(layers[k].items, 1)
    ELSE DilationLayersCheck(layers, k + 1, num_convs)

\* if dilation == 1: ... else: the length and value checks
DilationCheck(dilation, depth, conv_type) ==
    IF EqualsOne(dilation) THEN NoError
    ELSE IF ~HasLen(dilation) THEN Raise("TypeError", "len(dilation)")
    ELSE IF Len(dilation.items) # depth + 1
         THEN Raise("ValueError", "dilation length")
    ELSE DilationLayersCheck(dilation.items, 1, NumConvs(conv_type))

\* an order check that also rejects equal neighbours
ChannelsDecreaseOrStay(prev, next) == next.val2 <= prev.val2

\* if channels_sequence[i] < channels_sequence[i-1]
ChannelsDecrease(prev, next) == next.val2 < prev.val2

\* if 'channels_sequence' in kwargs.keys(): the three checks
ChannelsCheck(channels_sequence, depth) ==
    IF channels_sequence.kind = "none" THEN NoError
    ELSE LET cs == channels_sequence.items IN
         IF Len(cs) # depth THEN Raise("ValueError", "channels length")
         ELSE IF \E k \in 1..Len(cs) : ~IsInstanceInt(cs[k]) \/ LessThanOne(cs[k])
              THEN Raise("ValueError", "channels value")
         ELSE IF \E i \in 1..(depth - 1) : ChannelsDecrease(cs[i], cs[i + 1])
              THEN Raise("ValueError", "channels order")
         ELSE NoError

\* The parameter checks of UNet.__init__ in the order the code makes them:
\* the first one that fails is the exception raised.
Validate(a) ==
    IF a.conv_type \notin ConvTypes THEN Raise("ValueError", "conv_type")
    ELSE IF a.conv_type = "single" /\ a.residual
         THEN Raise("NotImplementedError", "residual")
    ELSE IF a.activation \notin Activations THEN Raise("ValueError", "activation")
    ELSE IF DilationCheck(a.dilation, a.depth, a.conv_type) # NoError
         THEN DilationCheck(a.dilation, a.depth, a.conv_type)
    ELSE IF a.upsample_type \notin UpsampleTypes
         THEN Raise("ValueError", "upsample_type")
    ELSE IF a.downsample_type \notin DownsampleTypes
         THEN Raise("ValueError", "downsample_type")
    ELSE IF ChannelsCheck(a.channels_sequence, a.depth) # NoError
         THEN ChannelsCheck(a.channels_sequence, a.depth)
    ELSE IF a.channels_sequence.kind # "none" /\ Len(a.channels_sequence.items) = 0
         THEN Raise("IndexError", "channels_sequence[-1]")
    ELSE NoError

\* ---------------------------------------------------- UNet.__init__: layers

\* dilation after the checks: a list of depth+1 lists of integers
DilationLists(dilation, depth, conv_type) ==
    IF EqualsOne(dilation) THEN [i \in 1..(depth + 1) |-> Ones(NumConvs(conv_type))]
    ELSE [i \in 1..(depth + 1) |->
             [j \in 1..Len(dilation.items[i].items) |-> IntOf(dilation.items[i].items[j])]]

\* stride: all ones for 'maxpool'; else [2, 1, ...] per level with a row of
\* ones inserted in front
StrideLists(downsample_type, depth, conv_type) ==
    IF downsample_type = "maxpool"
    THEN [i \in 1..(depth + 1) |-> Ones(NumConvs(conv_type))]
    ELSE <<Ones(NumConvs(conv_type))>> \o
         [i \in 1..depth |-> <<2>> \o Ones(NumConvs(conv_type) - 1)]

\* channels_sequence = [64]; doubled for the first three further levels
RECURSIVE DefaultChannels(_)
DefaultChannels(n) ==
    IF n <= 1 THEN <<DefaultFirstChannels>>
    ELSE LET prev == DefaultChannels(n - 1) IN
         Append(prev, IF (n - 2) < DoublingLevels THEN Last(prev) * 2 ELSE Last(prev))

\* the encoder's output channels per level, before in_channels is inserted
EncoderChannels(a) ==
    IF a.channels_sequence.kind # "none"
    THEN [k \in 1..Len(a.channels_sequence.items) |-> IntOf(a.channels_sequence.items[k])]
    ELSE DefaultChannels(a.depth)

\* a bottleneck that doubles the channels whether is_block or not
InverseChannelsDoubled(cs, is_block) == <<Last(cs) * 2>> \o Reverse(cs)

\* inverse_channels_sequence = channels_sequence[::-1] with the bottleneck's
\* output channels inserted in front
InverseChannels(cs, is_block) ==
    <<IF is_block THEN Last(cs) ELSE Last(cs) * 2>> \o Reverse(cs)

\* a skip taken from encoder level i instead of the mirrored level
UpInChannelsSameLevel(inv, cs, i) == inv[i] + cs[i + 1]

\* in_channels of decoder stage i: the previous stage's (or the bottleneck's)
\* output plus the mirrored encoder level's, inverse[i-1] + channels[-i]
UpInChannels(inv, cs, i) == inv[i] + cs[Len(cs) - i + 1]

\* nn.MaxPool2d(2) and nn.Upsample(scale_factor=2, mode='bilinear')
MaxPool2d(kernel_size) == [op |-> "MaxPool2d", kernel_size |-> kernel_size]
Upsample(scale_factor) == [op |-> "Upsample", scale_factor |-> scale_factor]

\* The layers UNet.__init__ builds once the checks have passed.  conv_up[i] is
\* the sequence of blocks of decoder stage i (two inside nn.Sequential with
\* big_upsample, else one); conv_middle is <<conv_middle>> or
\* <<conv_middle_part1, conv_middle_part2>>; conv_last is empty when is_block.
BuildUNet(a) ==
    LET enc == EncoderChannels(a)
        inv == InverseChannels(enc, a.is_block)
        cs == <<a.in_channels>> \o enc
        dil == DilationLists(a.dilation, a.depth, a.conv_type)
        stride == StrideLists(a.downsample_type, a.depth, a.conv_type)
        n == NumConvs(a.conv_type)
    IN  [downsample_type |-> a.downsample_type,
         advanced_bottleneck |-> a.advanced_bottleneck,
         big_upsample |-> a.big_upsample,
         channels_sequence |-> cs,
         inverse_channels_sequence |-> inv,
         is_block |-> a.is_block,
         conv_down |->
             [i \in 1..a.depth |->
                 ConvBlock(cs[i], cs[i + 1], a.conv_type, dil[i], PyList(stride[i]),
                           a.activation, a.residual, a.batchnorm)],
         conv_up |->
             [i \in 1..a.depth |->
                 IF a.big_upsample
                 THEN <<ConvBlock(UpInChannels(inv, cs, i), inv[i + 1], "double",
                                  <<1, 1>>, PyInt(1), a.activation, FALSE, FALSE),
                        ConvBlock(inv[i + 1], inv[i + 1], "double",
                                  <<1, 1>>, PyInt(1), a.activation, FALSE, TRUE)>>
                 ELSE <<ConvBlock(UpInChannels(inv, cs, i), inv[i + 1], a.conv_type,
                                  Ones(n), PyInt(1), a.activation, a.residual,
                                  a.batchnorm)>>],
         conv_middle |->
             IF a.advanced_bottleneck
             THEN <<ConvBlock(Last(cs), inv[1], "single", <<1>>, PyList(<<2>>),
                              a.activation, FALSE, FALSE),
                    ConvBlock(inv[1], inv[1], "triple", <<1, 1, 1>>,
                              PyList(<<1, 1, 1>>), a.activation, TRUE, FALSE)>>
             ELSE <<ConvBlock(Last(cs), inv[1], a.conv_type, Last(dil),
                              PyList(Last(stride)), a.activation,
                              a.residual_bottleneck, FALSE)>>,
         conv_last |-> IF ~a.is_block
                       THEN <<Conv2d(Last(inv), a.out_channels, 1, 1, 0, 1)>>
                       ELSE <<>>,
         maxpool |-> MaxPool2d(2),
         upsample |-> Upsample(2)]

\* ------------------------------------------------------- tensors, forward

\* A tensor is followed by its shape: channels, height, width.
Tensor(c, h, w) == [c |-> c, h |-> h, w |-> w]
\* a local variable that has not been assigned
Unbound == [c |-> 0, h |-> 0, w |-> 0]

Ok(t) == [err |-> NoError, x |-> t]
Fail(type, at) == [err |-> Raise(type, at), x |-> Unbound]

\* the output length of a convolution along one spatial axis
ConvOutSize(conv, n) ==
    ((n + 2 * conv.padding - conv.dilation * (conv.kernel_size - 1) - 1)
        \div conv.stride) + 1

\* conv(x): the input must have the declared channels and be at least as
\* large, padded, as the dilated kernel
Conv2dForward(conv, t) ==
    IF t.c # conv.in_channels THEN Fail("RuntimeError", "conv channels")
    ELSE IF ConvOutSize(conv, t.h) < 1 \/ ConvOutSize(conv, t.w) < 1
         THEN Fail("RuntimeError", "conv size")
    ELSE Ok(Tensor(conv.out_channels, ConvOutSize(conv, t.h), ConvOutSize(conv, t.w)))

\* whether two axis lengths broadcast, and to what
Broadcasts(m, n) == m = n \/ m = 1 \/ n = 1
BroadcastSize(m, n) == IF m >= n THEN m ELSE n

\* x_out + x
TensorAdd(s, t) ==
    IF Broadcasts(s.c, t.c) /\ Broadcasts(s.h, t.h) /\ Broadcasts(s.w, t.w)
    THEN Ok(Tensor(BroadcastSize(s.c, t.c), BroadcastSize(s.h, t.h),
                   BroadcastSize(s.w, t.w)))
    ELSE Fail("RuntimeError", "residual add")

\* ConvBlock.forward from its convolution i on, with x and x_out as they are
\* then.  The activation and the batch normalisation keep the shape.
RECURSIVE BlockLoop(_, _, _, _)
BlockLoop(block, i, t, x_out) ==
    IF i > block.num_convs
    THEN IF block.residual
         THEN IF x_out = Unbound THEN Fail("UnboundLocalError", "x_out")
              ELSE TensorAdd(x_out, t)
         ELSE Ok(t)
    ELSE LET saved == IF i = 2 /\ block.residual THEN t ELSE x_out
             r == Conv2dForward(block.conv_layers[i], t)
         IN  IF r.err # NoError THEN r
             ELSE BlockLoop(block, i + 1, r.x, saved)

\* ConvBlock.forward
BlockForward(block, t) == BlockLoop(block, 1, t, Unbound)

\* nn.Sequential (or the two bottleneck parts) applied in order
RECURSIVE BlocksForward(_, _, _)
BlocksForward(blocks, k, t) ==
    IF k > Len(blocks) THEN Ok(t)
    ELSE LET r == BlockForward(blocks[k], t) IN
         IF r.err # NoError THEN r ELSE BlocksForward(blocks, k + 1, r.x)

\* self.maxpool(x)
MaxPoolForward(pool, t) ==
    IF t.h \div pool.kernel_size < 1 \/ t.w \div pool.kernel_size < 1
    THEN Fail("RuntimeError", "maxpool size")
    ELSE Ok(Tensor(t.c, t.h \div pool.kernel_size, t.w \div pool.kernel_size))

\* self.upsample(x)
UpsampleForward(up, t) == Tensor(t.c, t.h * up.scale_factor, t.w * up.scale_factor)

\* torch.cat([x, skip], dim=1)
Cat(t, skip) ==
    IF t.h # skip.h \/ t.w # skip.w THEN Fail("RuntimeError", "cat size")
    ELSE Ok(Tensor(t.c + skip.c, t.h, t.w))

\* ------------------------------------------------------------------ state

VARIABLES
    pc,        \* where the caller is: "new", "raised", "built", then forward's position
    args,      \* the arguments of the UNet(...) call
    input,     \* the tensor the caller passes to forward
    model,     \* the UNet's attributes once built
    x,         \* forward's x
    encoding,  \* forward's list of encoder outputs
    i,         \* the index of the loop forward is in
    err        \* the exception raised, if any

vars == <<pc, args, input, model, x, encoding, i, err>>

NoModel == [built |-> FALSE]

\* ----------------------------------------------------- the calls explored

Pow2(n) == IF n = 0 THEN 1 ELSE 2 * (2 ^ (n - 1))
Depths == 0..MaxDepth
Sizes == 1..MaxSize
SeqsOf(S, n) == [1..n -> S]
PyInts(s) == PyList([k \in 1..Len(s) |-> PyInt(s[k])])

\* the defaults of the signature, for the arguments a family does not vary
Defaults ==
    [in_channels |-> 3, out_channels |-> 1, conv_type |-> "double",
     residual |-> FALSE, depth |-> 1, activation |-> "relu", dilation |-> PyInt(1),
     is_block |-> FALSE, upsample_type |-> "upsample", downsample_type |-> "maxpool",
     channels_sequence |-> PyNone, residual_bottleneck |-> FALSE,
     batchnorm |-> FALSE, advanced_bottleneck |-> FALSE, big_upsample |-> FALSE]

\* Dilation arguments: per-level lists of ones of one length, one level of which
\* is any list of up to three entries one of which is 0, 1, 2 or 1.5.
DilationValues == {PyInt(0), PyInt(1), PyInt(2), PyFloat2(3)}
DilationLevels ==
    { PyList([j \in 1..n |-> IF j = p THEN v ELSE PyInt(1)]) :
        n \in 1..3, p \in 1..3, v \in DilationValues }
DilationArgs ==
    { PyList([k \in 1..len |-> IF k = q THEN lv ELSE PyInts(Ones(n))]) :
        len \in 1..(MaxDepth + 2), q \in 1..(MaxDepth + 2), n \in 1..3,
        lv \in DilationLevels }
    \cup { PyList([k \in 1..len |-> PyInt(1)]) : len \in 1..(MaxDepth + 2) }

\* Channel sequences: every list of up to MaxDepth+1 entries among 0, 1, 2, 1.5.
ChannelValues == {PyInt(0), PyInt(1), PyInt(2), PyFloat2(3)}
ChannelArgs ==
    UNION { { PyList(s) : s \in SeqsOf(ChannelValues, n) } : n \in 0..(MaxDepth + 1) }

\* Accepted dilations for some depth and conv_type: every level <<2>>, <<2, 3>>
\* or <<2, 3, 4>>.
UniformDilations ==
    { PyList([k \in 1..len |-> PyInts([j \in 1..n |-> j + 1])]) :
        len \in 1..(MaxDepth + 1), n \in 1..3 }

\* Non-decreasing channel sequences over 1..3, of each length up to MaxDepth.
IncreasingChannels ==
    UNION { { PyInts(s) : s \in { t \in SeqsOf(1..3, n) :
                                    \A k \in 1..(n - 1) : t[k] <= t[k + 1] } } :
            n \in 1..MaxDepth }

\* The caller's tensor has in_channels channels.
Called(a, h, w) == args = a /\ input = Tensor(a.in_channels, h, w)

\* Every enumerated option, valid and not, with a default or a scalar dilation.
OptionCalls ==
    \E ct \in ConvTypes \cup {"quadruple"}, ac \in Activations \cup {"tanh"},
       up \in UpsampleTypes \cup {"nearest"}, dn \in DownsampleTypes \cup {"avgpool"},
       rs \in BOOLEAN, d \in Depths, dl \in {PyInt(1), PyInt(2), PyFloat2(2)} :
        Called([Defaults EXCEPT !.conv_type = ct, !.activation = ac,
                                !.upsample_type = up, !.downsample_type = dn,
                                !.residual = rs, !.depth = d, !.dilation = dl],
               Pow2(MaxDepth), Pow2(MaxDepth))

\* Every dilation list, against every depth and conv_type.
DilationCalls ==
    \E ct \in ConvTypes \cup {"quadruple"}, rs \in BOOLEAN, d \in Depths,
       dl \in DilationArgs :
        Called([Defaults EXCEPT !.conv_type = ct, !.residual = rs, !.depth = d,
                                !.dilation = dl],
               Pow2(MaxDepth), Pow2(MaxDepth))

\* Every channel sequence, against every depth.
ChannelCalls ==
    \E d \in Depths, cs \in ChannelArgs, ib \in BOOLEAN :
        Called([Defaults EXCEPT !.depth = d, !.channels_sequence = cs, !.is_block = ib],
               Pow2(MaxDepth), Pow2(MaxDepth))

\* The options that decide heights and widths, on every input size.
SpatialCalls ==
    \E ct \in ConvTypes, dn \in DownsampleTypes, rs \in BOOLEAN, rb \in BOOLEAN,
       ab \in BOOLEAN, d \in Depths, dl \in {PyInt(1)} \cup UniformDilations,
       h \in Sizes, w \in Sizes :
        Called([Defaults EXCEPT !.conv_type = ct, !.downsample_type = dn,
                                !.residual = rs, !.residual_bottleneck = rb,
                                !.advanced_bottleneck = ab, !.depth = d,
                                !.dilation = dl],
               h, w)

\* The options that decide channel counts.
NetworkCalls ==
    \E ct \in ConvTypes, dn \in DownsampleTypes, rs \in BOOLEAN, ib \in BOOLEAN,
       bu \in BOOLEAN, ab \in BOOLEAN, bn \in BOOLEAN, d \in Depths,
       cs \in {PyNone} \cup IncreasingChannels, ic \in {1, 3}, oc \in {1, 2} :
        Called([Defaults EXCEPT !.conv_type = ct, !.downsample_type = dn,
                                !.residual = rs, !.is_block = ib, !.big_upsample = bu,
                                !.advanced_bottleneck = ab, !.batchnorm = bn,
                                !.depth = d, !.channels_sequence = cs,
                                !.in_channels = ic, !.out_channels = oc],
               Pow2(MaxDepth), Pow2(MaxDepth))

Init ==
    /\ OptionCalls \/ DilationCalls \/ ChannelCalls \/ SpatialCalls \/ NetworkCalls
    /\ pc = "new"
    /\ model = NoModel
    /\ x = Unbound
    /\ encoding = <<>>
    /\ i = 0
    /\ err = NoError

\* ---------------------------------------------------------------- actions

\* UNet.__init__: the checks, then the layers
UNetInit ==
    /\ pc = "new"
    /\ IF Validate(args) # NoError
       THEN /\ pc' = "raised"
            /\ err' = Validate(args)
            /\ model' = model
       ELSE /\ pc' = "built"
            /\ err' = err
            /\ model' = BuildUNet(args)
    /\ UNCHANGED <<args, input, x, encoding, i>>

\* forward is called: encoding = []
ForwardCall ==
    /\ pc = "built"
    /\ x' = input
    /\ encoding' = <<>>
    /\ i' = 1
    /\ pc' = IF Len(model.conv_down) = 0 THEN "middle" ELSE "down"
    /\ UNCHANGED <<args, input, model, err>>

\* one round of: for conv_block in self.conv_down
DownStep ==
    /\ pc = "down"
    /\ LET r == BlockForward(model.conv_down[i], x)
           pooled == IF r.err # NoError THEN r
                     ELSE IF model.downsample_type = "maxpool"
                          THEN MaxPoolForward(model.maxpool, r.x)
                          ELSE r
       IN  IF pooled.err # NoError
           THEN /\ pc' = "failed"
                /\ err' = pooled.err
                /\ UNCHANGED <<x, encoding, i>>
           ELSE /\ encoding' = IF model.downsample_type \in {"conv_stride", "maxpool"}
                               THEN Append(encoding, r.x) ELSE encoding
                /\ x' = pooled.x
                /\ i' = i + 1
                /\ pc' = IF i = Len(model.conv_down) THEN "middle" ELSE "down"
                /\ err' = err
    /\ UNCHANGED <<args, input, model>>

\* the bottleneck: conv_middle, or conv_middle_part1 then conv_middle_part2
MiddleStep ==
    /\ pc = "middle"
    /\ LET r == BlocksForward(model.conv_middle, 1, x)
       IN  IF r.err # NoError
           THEN /\ pc' = "failed"
                /\ err' = r.err
                /\ UNCHANGED <<x, i>>
           ELSE /\ x' = r.x
                /\ i' = 1
                /\ pc' = IF Len(model.conv_up) = 0 THEN "last" ELSE "upsample"
                /\ err' = err
    /\ UNCHANGED <<args, input, model, encoding>>

\* x = self.upsample(x)
UpsampleStep ==
    /\ pc = "upsample"
    /\ x' = UpsampleForward(model.upsample, x)
    /\ pc' = "cat"
    /\ UNCHANGED <<args, input, model, encoding, i, err>>

\* x = torch.cat([x, encoding[::-1][i]], dim=1); x = conv_block(x)
CatConvStep ==
    /\ pc = "cat"
    /\ LET c == Cat(x, Reverse(encoding)[i])
           r == IF c.err # NoError THEN c ELSE BlocksForward(model.conv_up[i], 1, c.x)
       IN  IF r.err # NoError
           THEN /\ pc' = "failed"
                /\ err' = r.err
                /\ UNCHANGED <<x, i>>
           ELSE /\ x' = r.x
                /\ i' = i + 1
                /\ pc' = IF i = Len(model.conv_up) THEN "last" ELSE "upsample"
                /\ err' = err
    /\ UNCHANGED <<args, input, model, encoding>>

\* if not self.is_block: x = self.conv_last(x); return x
ReturnStep ==
    /\ pc = "last"
    /\ LET r == IF ~model.is_block THEN Conv2dForward(model.conv_last[1], x) ELSE Ok(x)
       IN  IF r.err # NoError
           THEN /\ pc' = "failed"
                /\ err' = r.err
                /\ x' = x
           ELSE /\ pc' = "returned"
                /\ err' = err
                /\ x' = r.x
    /\ UNCHANGED <<args, input, model, encoding, i>>

Next ==
    \/ UNetInit
    \/ ForwardCall
    \/ DownStep
    \/ MiddleStep
    \/ UpsampleStep
    \/ CatConvStep
    \/ ReturnStep

Spec == Init /\ [][Next]_vars

\* ------------------------------------------------------------- properties

Constructed == pc \notin {"new", "raised"}
BlockIn(b) == b.conv_layers[1].in_channels
BlockOut(b) == b.conv_layers[b.num_convs].out_channels
SeqSet(s) == {s[k] : k \in 1..Len(s)}
AllBlocks(m) ==
    SeqSet(m.conv_down) \cup SeqSet(m.conv_middle)
    \cup UNION {SeqSet(m.conv_up[k]) : k \in 1..Len(m.conv_up)}
IsList(v) == v.kind = "list"
BadNumber(v) == v.kind # "int" \/ v.val2 < 2

OptionsValid(a) ==
    /\ a.conv_type \in {"single", "double", "triple"}
    /\ a.activation \in {"relu", "prelu", "leaky_relu"}
    /\ a.upsample_type \in {"upsample", "convtranspose"}
    /\ a.downsample_type \in {"maxpool", "conv_stride"}
    /\ ~(a.conv_type = "single" /\ a.residual)
DilationWellFormed(a) ==
    \/ a.dilation = PyInt(1)
    \/ /\ IsList(a.dilation)
       /\ Len(a.dilation.items) = a.depth + 1
       /\ \A k \in 1..Len(a.dilation.items) :
            /\ IsList(a.dilation.items[k])
            /\ Len(a.dilation.items[k].items) = CONV_TYPE[a.conv_type]
            /\ \A j \in 1..Len(a.dilation.items[k].items) :
                 ~BadNumber(a.dilation.items[k].items[j])
ChannelsGiven(a) == IsList(a.channels_sequence)
ChannelsWellFormed(a) ==
    LET cs == a.channels_sequence.items IN
    /\ Len(cs) = a.depth
    /\ \A k \in 1..Len(cs) : ~BadNumber(cs[k])
    /\ \A k \in 1..(Len(cs) - 1) : cs[k].val2 <= cs[k + 1].val2

C1_Rejected(a) ==
    \/ a.conv_type \notin {"single", "double", "triple"}
    \/ a.activation \notin {"relu", "prelu", "leaky_relu"}
    \/ a.upsample_type \notin {"upsample", "convtranspose"}
    \/ a.downsample_type \notin {"maxpool", "conv_stride"}
    \/ /\ IsList(a.dilation)
       /\ \/ Len(a.dilation.items) # a.depth + 1
          \/ \E k \in 1..Len(a.dilation.items) :
               /\ IsList(a.dilation.items[k])
               /\ \/ /\ a.conv_type \in {"single", "double", "triple"}
                     /\ Len(a.dilation.items[k].items) # CONV_TYPE[a.conv_type]
                  \/ \E j \in 1..Len(a.dilation.items[k].items) :
                       BadNumber(a.dilation.items[k].items[j])
    \/ ChannelsGiven(a) /\ Len(a.channels_sequence.items) # a.depth

C2_ChannelsValidation ==
    (pc # "new" /\ ChannelsGiven(args) /\ OptionsValid(args) /\ DilationWellFormed(args))
        => ((err.type # "ValueError") <=> ChannelsWellFormed(args))
\* a sequence with two equal neighbours was accepted and the layers built
C2_Witness ==
    /\ pc = "built"
    /\ ChannelsGiven(args)
    /\ Len(args.channels_sequence.items) >= 2
    /\ args.channels_sequence.items[1] = args.channels_sequence.items[2]

C3_NamedActivation(activation) ==
    CASE activation = "relu" -> "ReLU"
      [] activation = "prelu" -> "PReLU"
      [] activation = "leaky_relu" -> "LeakyReLU"

\* C3: every block applies the activation named at construction: 'relu' gives
\* ReLU, 'prelu' gives PReLU, 'leaky_relu' gives LeakyReLU.
C3_ActivationAsChosen ==
    (Constructed /\ args.depth >= 1) =>
        \A b \in AllBlocks(model) : b.activation = C3_NamedActivation(args.activation)

\* C4: a UNet built with upsample_type='convtranspose' upsamples with a
\* transposed convolution, one built with 'upsample' with Upsample.
C4_UpsampleAsChosen ==
    (Constructed /\ args.depth >= 1) =>
        model.upsample.op = (IF args.upsample_type = "convtranspose"
                             THEN "ConvTranspose2d" ELSE "Upsample")

C5_FirstEntry(a) ==
    IF ChannelsGiven(a) THEN a.channels_sequence.items[1].val2 \div 2 ELSE DefaultFirstChannels

\* C5: for depth >= 1, with is_block the bottleneck outputs as many channels as
\* the deepest encoder block, there is no final convolution and forward
\* returns the last decoder block's output, which has the channel sequence's
\* first entry as its channels; without is_block the bottleneck outputs twice
\* the deepest encoder block's channels and forward ends with one more
\* convolution of kernel size 1, so the result has out_channels channels.
C5_BlockOrComplete ==
    (Constructed /\ args.depth >= 1) =>
        LET deepest == BlockOut(Last(model.conv_down))
            bottleneck == BlockOut(Last(model.conv_middle))
            decoded == BlockOut(Last(Last(model.conv_up)))
        IN  IF args.is_block
            THEN /\ bottleneck = deepest
                 /\ model.conv_last = <<>>
                 /\ decoded = C5_FirstEntry(args)
                 /\ pc = "returned" => x.c = decoded
            ELSE /\ bottleneck = 2 * deepest
                 /\ Len(model.conv_last) = 1
                 /\ model.conv_last[1].kernel_size = 1
                 /\ model.conv_last[1].in_channels = decoded
                 /\ pc = "returned" => x.c = args.out_channels
\* forward returned from a block-mode UNet of depth >= 2 whose channels grow
C5_Witness ==
    /\ pc = "returned"
    /\ args.is_block
    /\ args.depth >= 2
    /\ ChannelsGiven(args)
    /\ args.channels_sequence.items[1] # args.channels_sequence.items[2]
    /\ x.c # args.out_channels

\* C6: a scalar positive integer dilation, such as the documented dilation=2,
\* is accepted: with the other arguments valid the construction succeeds.
C6_ScalarDilationAccepted ==
    (/\ pc # "new"
     /\ args.depth >= 1
     /\ args.dilation.kind = "int" /\ args.dilation.val2 >= 2
     /\ OptionsValid(args)
     /\ ChannelsGiven(args) => ChannelsWellFormed(args))
        => pc # "raised"

\* C7: for an accepted configuration of depth >= 1 and an input whose height
\* and width are multiples of 2^depth, what is upsampled at a decoder stage has
\* the height and width of the mirrored encoder output it is concatenated
\* with, and the result has the input's height and width.
C7_SkipShapesMatch ==
    (/\ Constructed
     /\ args.depth >= 1
     /\ input.h % Pow2(args.depth) = 0
     /\ input.w % Pow2(args.depth) = 0)
        => /\ pc = "cat" =>
                /\ x.h = encoding[Len(encoding) - i + 1].h
                /\ x.w = encoding[Len(encoding) - i + 1].w
           /\ err.at # "cat size"
           /\ pc = "returned" => (x.h = input.h /\ x.w = input.w)

C8_Chained(blocks) ==
    /\ \A k \in 2..Len(blocks) : BlockIn(blocks[k]) = BlockOut(blocks[k - 1])
    /\ \A k \in 1..Len(blocks) : \A j \in 2..blocks[k].num_convs :
         blocks[k].conv_layers[j].in_channels = blocks[k].conv_layers[j - 1].out_channels

\* C8: for depth >= 1 the declared input channels are what forward feeds in:
\* encoder block k takes block k-1's output (in_channels for the first), the
\* bottleneck the deepest encoder block's, decoder stage i the previous
\* stage's (or the bottleneck's) plus the encoder block's at level depth-i+1,
\* and the final convolution the last decoder block's.
C8_ChannelsMatch ==
    (Constructed /\ args.depth >= 1) =>
        LET d == args.depth
            down == model.conv_down
            up == model.conv_up
        IN  /\ BlockIn(down[1]) = args.in_channels
            /\ C8_Chained(down)
            /\ BlockIn(model.conv_middle[1]) = BlockOut(down[d])
            /\ C8_Chained(model.conv_middle)
            /\ \A k \in 1..d :
                 /\ BlockIn(up[k][1]) =
                        (IF k = 1 THEN BlockOut(Last(model.conv_middle))
                         ELSE BlockOut(Last(up[k - 1])))
                        + BlockOut(down[d - k + 1])
                 /\ C8_Chained(up[k])
            /\ \A k \in 1..Len(model.conv_last) :
                 model.conv_last[k].in_channels = BlockOut(Last(up[d]))
            /\ err.at # "conv channels"
\* forward returned through a two-part bottleneck and two-block decoder stages
\* of a UNet of depth >= 2 whose encoder levels differ in channels
C8_Witness ==
    /\ pc = "returned"
    /\ args.depth >= 2
    /\ args.big_upsample
    /\ args.advanced_bottleneck
    /\ BlockOut(model.conv_down[1]) # BlockOut(model.conv_down[2])

\* C9: no block of an accepted UNet has a residual connection and a single
\* convolution, so the skip tensor is defined when forward adds it.
C9_ResidualHasSkip ==
    (Constructed /\ args.depth >= 1) =>
        /\ \A b \in AllBlocks(model) : b.residual => b.num_convs >= 2
        /\ err.type # "UnboundLocalError"

====
